---- MODULE Spec2Model ----
(***************************************************************************)
(* Model of the agent-skills plugin library:                               *)
(*   lib/state.py        the active-skill state file                       *)
(*   lib/marketplace.py  install_skill / remove_skill                      *)
(*   lib/parser.py       parse_skill / list_skills                         *)
(* Python strings are sequences of one-character strings; a Python value   *)
(* is a record tagged with its type.                                       *)
(***************************************************************************)
EXTENDS Integers, Sequences, FiniteSets, TLC

VARIABLES
    stateFile,   \* STATE_FILE on disk: absent, or its text
    lastSet,     \* history: the data of the last sequential call (None after clear)
    got,         \* what the last get_active_skill() returned
    lastOp,      \* history: the operation that ran last
    wpc,         \* concurrent writers: position of each inside write_text
    wargs,       \* concurrent writers: the (name, allowed_tools) each was called with
    finished,    \* history: the writers in the order their write completed
    fs,          \* the directory tree: resolved path -> entry
    ret,         \* what the last install_skill / remove_skill returned
    procs,       \* the subprocesses the last call ran, with their exit status
    call,        \* history: the last marketplace call and its reference
    prev,        \* history: the call before it, when it was an install that succeeded
    descriptor,  \* the SKILL.md handed to parse_skill: absent, or its text
    parsed,      \* what parse_skill(descriptor) did: a Skill, None, or an exception
    listing,     \* the skills_dir handed to list_skills: absent, or its entries
    listed       \* what list_skills(listing) did: a list, or an exception

storeVars == <<stateFile, lastSet, got, lastOp, wpc, wargs, finished>>
marketVars == <<fs, ret, procs, call, prev>>
parseVars == <<descriptor, parsed, listing, listed>>
vars == <<storeVars, marketVars, parseVars>>

----------------------------------------------------------------------------
(* Bounds *)

\* longest name / allowed_tools string handed to set_active_skill
MaxStrLen == 1

\* number of set_active_skill calls running interleaved
NumWriters == 2

----------------------------------------------------------------------------
(* Python values *)

None == [t |-> "none"]
Str(s) == [t |-> "str", s |-> s]
Dict(f) == [t |-> "dict", d |-> f]

\* the characters the state store's strings are drawn from: a plain letter and
\* the two characters json.dumps has to escape
StrChars == {"a", "\"", "\\"}

\* the characters of an allowed_tools list such as "R,W"
ToolChars == {"R", ","}

SeqsUpTo(S, n) == UNION {[1..k -> S] : k \in 0..n}

StoreStrings == SeqsUpTo(StrChars, MaxStrLen)

KeyName == <<"n", "a", "m", "e">>
KeyTools == <<"a", "l", "l", "o", "w", "e", "d", "_", "t", "o", "o", "l", "s">>

----------------------------------------------------------------------------
(* json.dumps / json.loads, as far as state.py uses them *)

\* an encoder that escapes the quote but forgets the backslash
RECURSIVE JsonEscapeQuoteOnly(_)
JsonEscapeQuoteOnly(s) ==
    IF s = <<>> THEN <<>>
    ELSE (IF Head(s) = "\"" THEN <<"\\", Head(s)>> ELSE <<Head(s)>>)
         \o JsonEscapeQuoteOnly(Tail(s))

RECURSIVE JsonEscape(_)
JsonEscape(s) ==
    IF s = <<>> THEN <<>>
    ELSE (IF Head(s) \in {"\"", "\\"} THEN <<"\\", Head(s)>> ELSE <<Head(s)>>)
         \o JsonEscape(Tail(s))

JsonString(s) == <<"\"">> \o JsonEscape(s) \o <<"\"">>

JsonValue(v) ==
    IF v = None THEN <<"n", "u", "l", "l">> ELSE JsonString(v.s)

\* json.dumps({"name": name, "allowed_tools": allowed_tools})
JsonDumps(data) ==
    <<"{">> \o JsonString(KeyName) \o <<":", " ">> \o JsonValue(data.d[KeyName])
    \o <<",", " ">> \o JsonString(KeyTools) \o <<":", " ">>
    \o JsonValue(data.d[KeyTools]) \o <<"}">>

JsonError == [ok |-> FALSE]

\* scan a string literal whose opening quote is at position i-1; acc holds
\* the characters decoded so far
RECURSIVE ScanString(_, _, _)
ScanString(text, i, acc) ==
    IF i > Len(text) THEN JsonError
    ELSE IF text[i] = "\"" THEN [ok |-> TRUE, v |-> Str(acc), next |-> i + 1]
    ELSE IF text[i] = "\\" THEN
        IF i + 1 <= Len(text) /\ text[i + 1] \in {"\"", "\\"}
        THEN ScanString(text, i + 2, Append(acc, text[i + 1]))
        ELSE JsonError
    ELSE ScanString(text, i + 1, Append(acc, text[i]))

SkipWs(text, i) ==
    IF \E j \in i..Len(text) : text[j] # " "
    THEN CHOOSE j \in i..Len(text) :
            text[j] # " " /\ \A k \in i..(j - 1) : text[k] = " "
    ELSE Len(text) + 1

\* a value: a string literal or null (the only values state.py writes)
ScanValue(text, i0) ==
    LET i == SkipWs(text, i0) IN
    IF i > Len(text) THEN JsonError
    ELSE IF text[i] = "\"" THEN ScanString(text, i + 1, <<>>)
    ELSE IF i + 3 <= Len(text) /\ SubSeq(text, i, i + 3) = <<"n", "u", "l", "l">>
    THEN [ok |-> TRUE, v |-> None, next |-> i + 4]
    ELSE JsonError

\* the members of an object, from position i0 (after "{" or ","); d holds the
\* pairs read so far, a later key replacing an earlier equal one
RECURSIVE ScanMembers(_, _, _)
ScanMembers(text, i0, d) ==
    LET i == SkipWs(text, i0) IN
    IF i > Len(text) \/ text[i] # "\"" THEN JsonError
    ELSE LET k == ScanString(text, i + 1, <<>>) IN
    IF ~k.ok THEN JsonError
    ELSE LET c == SkipWs(text, k.next) IN
    IF c > Len(text) \/ text[c] # ":" THEN JsonError
    ELSE LET v == ScanValue(text, c + 1) IN
    IF ~v.ok THEN JsonError
    ELSE LET e == SkipWs(text, v.next)
             d2 == (k.v.s :> v.v) @@ d IN
    IF e > Len(text) THEN JsonError
    ELSE IF text[e] = "," THEN ScanMembers(text, e + 1, d2)
    ELSE IF text[e] = "}" THEN [ok |-> TRUE, v |-> Dict(d2), next |-> e + 1]
    ELSE JsonError

\* json.loads(text): the decoded value, or JsonError for JSONDecodeError
\* (which includes "Extra data" after the closing brace)
JsonLoads(text) ==
    LET i == SkipWs(text, 1) IN
    IF i > Len(text) \/ text[i] # "{" THEN JsonError
    ELSE LET o == ScanMembers(text, i + 1, <<>>) IN
    IF ~o.ok THEN JsonError
    ELSE IF SkipWs(text, o.next) <= Len(text) THEN JsonError
    ELSE o

----------------------------------------------------------------------------
(* lib/state.py *)

NoCall == [op |-> "none"]

\* the marketplace part at rest, for the specifications that do not use it
MarketIdle ==
    /\ fs = <<>>
    /\ ret = [k |-> "none"]
    /\ procs = <<>>
    /\ call = NoCall
    /\ prev = NoCall

NoInput == [t |-> "noinput"]
Pending == [t |-> "pending"]

\* the parser part at rest, for the specifications that do not use it
ParseIdle ==
    /\ descriptor = NoInput
    /\ parsed = Pending
    /\ listing = NoInput
    /\ listed = Pending

Absent == [exists |-> FALSE]
FileWith(text) == [exists |-> TRUE, text |-> text]

\* data = {"name": name, "allowed_tools": allowed_tools}
ActiveData(name, allowed_tools) ==
    Dict((KeyName :> name) @@ (KeyTools :> allowed_tools))

\* Path.write_text(s), run to completion: the file holds exactly s
WriteText(s) == FileWith(s)

\* get_active_skill(): the value returned for a given state file
GetActiveValue(file) ==
    IF ~file.exists THEN None
    ELSE LET r == JsonLoads(file.text) IN
         IF r.ok THEN r.v ELSE None

NameArgs == {Str(s) : s \in StoreStrings}
ToolsArgs == {None} \cup {Str(s) : s \in SeqsUpTo(ToolChars, MaxStrLen)}

get_active_skill ==
    /\ got' = GetActiveValue(stateFile)
    /\ lastOp' = "get"
    /\ UNCHANGED <<stateFile, lastSet, wpc, wargs, finished, marketVars, parseVars>>

set_active_skill(name, allowed_tools) ==
    /\ stateFile' = WriteText(JsonDumps(ActiveData(name, allowed_tools)))
    /\ lastSet' = ActiveData(name, allowed_tools)
    /\ lastOp' = "set"
    /\ UNCHANGED <<got, wpc, wargs, finished, marketVars, parseVars>>

clear_active_skill ==
    /\ stateFile' = IF stateFile.exists THEN Absent ELSE stateFile
    /\ lastSet' = None
    /\ lastOp' = "clear"
    /\ UNCHANGED <<got, wpc, wargs, finished, marketVars, parseVars>>

SetActive == \E n \in NameArgs, a \in ToolsArgs : set_active_skill(n, a)

Init ==
    /\ stateFile = Absent
    /\ lastSet = None
    /\ got = None
    /\ lastOp = "init"
    /\ wpc = <<>>
    /\ wargs = <<>>
    /\ finished = <<>>
    /\ MarketIdle
    /\ ParseIdle

Next ==
    \/ SetActive
    \/ clear_active_skill
    \/ get_active_skill

Spec == Init /\ [][Next]_vars

\* C1: in sequential use from an absent state file, get_active_skill returns
\* the data of the most recent set_active_skill when no clear_active_skill
\* followed it and None otherwise, and get_active_skill leaves the state file
\* as it found it.
Thm_C1 ==
    /\ [](lastOp = "get" => got = lastSet)
    /\ [][lastOp' = "get" => stateFile' = stateFile]_vars

\* a get after a set whose name needs escaping, answered with that record
Wit_C1 ==
    /\ lastOp = "get"
    /\ got # None
    /\ got = lastSet
    /\ got.d[KeyName] = Str(<<"\\">>)
    /\ got.d[KeyTools] # None

----------------------------------------------------------------------------
(* lib/state.py under interleaving: Path.write_text is open(path, "w")      *)
(* (create or truncate), one write of the whole text at the descriptor's    *)
(* own offset 0, close.                                                     *)

Writers == 1..NumWriters

\* open(STATE_FILE, "w"): O_CREAT | O_TRUNC
OpenTruncate(file) == FileWith(<<>>)

\* a write on a descriptor opened for appending
WriteAtEnd(file, s) == FileWith(file.text \o s)

\* write(fd, s) at offset 0 of a file another descriptor may have written:
\* the first Len(s) bytes are replaced, later bytes stay
WriteAtStart(file, s) ==
    FileWith(s \o SubSeq(file.text, Len(s) + 1, Len(file.text)))

\* what the interleaved calls are given: names of different lengths, one of
\* them needing an escape, so that the serialised records differ in length
ConcArgs == {ActiveData(Str(n), None) : n \in SeqsUpTo({"a", "\""}, MaxStrLen)}

WriterOpen(w) ==
    /\ wpc[w] = "called"
    /\ stateFile' = OpenTruncate(stateFile)
    /\ wpc' = [wpc EXCEPT ![w] = "opened"]
    /\ lastOp' = "open"
    /\ UNCHANGED <<lastSet, got, wargs, finished, marketVars, parseVars>>

WriterWrite(w) ==
    /\ wpc[w] = "opened"
    /\ stateFile' = WriteAtStart(stateFile, JsonDumps(wargs[w]))
    /\ wpc' = [wpc EXCEPT ![w] = "done"]
    /\ finished' = Append(finished, w)
    /\ lastOp' = "write"
    /\ UNCHANGED <<lastSet, got, wargs, marketVars, parseVars>>

ConcGet == get_active_skill

InitConc ==
    /\ stateFile = Absent
    /\ lastSet = None
    /\ got = None
    /\ lastOp = "init"
    /\ wpc = [w \in Writers |-> "called"]
    /\ wargs \in [Writers -> ConcArgs]
    /\ finished = <<>>
    /\ MarketIdle
    /\ ParseIdle

NextConc ==
    \/ \E w \in Writers : WriterOpen(w)
    \/ \E w \in Writers : WriterWrite(w)
    \/ ConcGet

SpecConc == InitConc /\ [][NextConc]_vars

AllDone == \A w \in Writers : wpc[w] = "done"
LastFinished == wargs[finished[Len(finished)]]
NoLongerRecord ==
    \A w \in Writers : Len(JsonDumps(wargs[w])) <= Len(JsonDumps(LastFinished))

\* C8 as stated: once every interleaved set_active_skill has completed,
\* get_active_skill returns the record of the call whose write finished last.
Cex_C8 ==
    (AllDone /\ lastOp = "get") => got = LastFinished

\* C8 amended: once every interleaved set_active_skill has completed,
\* get_active_skill returns the record whose write finished last whenever no
\* other call's serialised record is longer; otherwise it returns that record
\* or None, and never a mixture of two records.
Thm_C8 ==
    (AllDone /\ lastOp = "get") =>
        /\ got \in {None, LastFinished}
        /\ NoLongerRecord => got = LastFinished

\* all writers done, and the read finds the tail of a longer record behind
\* the last one written
Wit_C8 ==
    /\ AllDone
    /\ lastOp = "get"
    /\ got = None
    /\ Len(stateFile.text) > Len(JsonDumps(LastFinished))

----------------------------------------------------------------------------
(* Strings and paths of lib/marketplace.py.  A string is a sequence of      *)
(* tokens: "/" or a run of characters holding no "/".  A path is a sequence *)
(* of components (strings without "/"), read from the top directory <<>>.   *)

\* the tokens that begin with "http"
HttpTokens == {"https:"}

StartsWithHttp(s) == s # <<>> /\ s[1] \in HttpTokens

HasSlash(s) == \E i \in 1..Len(s) : s[i] = "/"

FirstSlash(s) ==
    CHOOSE i \in 1..Len(s) : s[i] = "/" /\ \A j \in 1..(i - 1) : s[j] # "/"

\* s.rstrip("/")
RECURSIVE RStripSlash(_)
RStripSlash(s) ==
    IF s # <<>> /\ s[Len(s)] = "/" THEN RStripSlash(SubSeq(s, 1, Len(s) - 1))
    ELSE s

\* s.split("/")
RECURSIVE SplitSlash(_)
SplitSlash(s) ==
    IF ~HasSlash(s) THEN <<s>>
    ELSE <<SubSeq(s, 1, FirstSlash(s) - 1)>>
         \o SplitSlash(SubSeq(s, FirstSlash(s) + 1, Len(s)))

LastOf(q) == q[Len(q)]

\* pathlib: the components of a string, empty and "." components dropped
PathParts(s) ==
    SelectSeq(SplitSlash(s), LAMBDA c : c # <<>> /\ c # <<".">>)

\* pathlib: base / s (an absolute s replaces base)
JoinPath(base, s) ==
    IF s # <<>> /\ s[1] = "/" THEN PathParts(s) ELSE base \o PathParts(s)

\* skills_dir, as the caller passes it
SkillsName == <<"skills">>
SkillsDir == <<SkillsName>>

DirEntry(from) == [kind |-> "dir", from |-> from]
FileEntry == [kind |-> "file", from |-> "local"]

IsPrefix(p, q) == Len(p) <= Len(q) /\ SubSeq(q, 1, Len(p)) = p

IsDir(f, r) == r = <<>> \/ (r \in DOMAIN f /\ f[r].kind = "dir")

\* the kernel's walk along a path: ".." steps to the parent, and every
\* component but the last must be a directory
RECURSIVE Walk(_, _, _)
Walk(f, cur, rest) ==
    IF rest = <<>> THEN [ok |-> TRUE, at |-> cur]
    ELSE IF ~IsDir(f, cur) THEN [ok |-> FALSE]
    ELSE Walk(f,
              IF Head(rest) = <<"..">>
              THEN SubSeq(cur, 1, Len(cur) - 1)
              ELSE Append(cur, Head(rest)),
              Tail(rest))

\* Path.exists()
PathExists(f, p) ==
    LET w == Walk(f, <<>>, p) IN
    w.ok /\ (w.at = <<>> \/ w.at \in DOMAIN f)

Under(f, r) == {q \in DOMAIN f : IsPrefix(r, q)}

Without(f, gone) == [q \in (DOMAIN f \ gone) |-> f[q]]

ProperPrefixes(r) == {SubSeq(r, 1, n) : n \in 1..(Len(r) - 1)}

\* the missing leading directories of r, created
WithParents(f, r, from) ==
    [q \in (ProperPrefixes(r) \ DOMAIN f) |-> DirEntry(from)] @@ f

ParentsAreDirs(f, r) ==
    \A q \in ProperPrefixes(r) : q \in DOMAIN f => f[q].kind = "dir"

\* skills_dir.mkdir(parents=True, exist_ok=True); allowed: the operating
\* system lets the directory be created
Mkdir(f, p, allowed) ==
    LET w == Walk(f, <<>>, p) IN
    IF w.ok /\ IsDir(f, w.at) THEN [raised |-> FALSE, fs |-> f]
    ELSE IF w.ok /\ w.at \in DOMAIN f THEN [raised |-> TRUE, fs |-> f]
    ELSE IF ~allowed \/ ~ParentsAreDirs(f, p) THEN [raised |-> TRUE, fs |-> f]
    ELSE [raised |-> FALSE,
          fs |-> (p :> DirEntry("local")) @@ WithParents(f, p, "local")]

\* shutil.rmtree(p); works: no I/O error interrupts it
RmTree(f, p, works) ==
    LET w == Walk(f, <<>>, p) IN
    IF ~works \/ ~w.ok \/ ~IsDir(f, w.at) THEN [raised |-> TRUE, fs |-> f]
    ELSE IF w.at = <<>> \/ LastOf(p) = <<"..">>
    THEN [raised |-> TRUE, fs |-> Without(f, Under(f, w.at) \ {w.at})]
    ELSE [raised |-> FALSE, fs |-> Without(f, Under(f, w.at))]

\* shutil.move(src, dst) of a directory onto a path that does not exist:
\* os.rename, or copytree (which makes the leading directories) and rmtree.
\* dst holds no ".." component: a name ".." resolves to a directory that
\* exists and is refused as installed before anything is created
Move(f, src, dst, works) ==
    LET ws == Walk(f, <<>>, src) IN
    IF ~works \/ ~ws.ok \/ ~ParentsAreDirs(f, dst)
    THEN [raised |-> TRUE, fs |-> f]
    ELSE LET moved == Under(f, ws.at)
             rest == WithParents(Without(f, moved), dst, "local") IN
         [raised |-> FALSE,
          fs |-> [q \in {dst \o SubSeq(m, Len(ws.at) + 1, Len(m)) : m \in moved}
                    |-> f[ws.at \o SubSeq(q, Len(dst) + 1, Len(q))]] @@ rest]

\* git clone --depth 1 --filter=blob:none --sparse <repo_url> <temp_dir>;
\* works: the network and the remote let it succeed.  A clone that fails
\* leaves nothing behind; one into a directory that is not empty fails
GitClone(f, temp, works) ==
    IF \/ ~ParentsAreDirs(f, temp)
       \/ (temp \in DOMAIN f /\ (f[temp].kind = "file" \/ Under(f, temp) # {temp}))
       \/ ~works
    THEN [rc |-> 128, fs |-> f]
    ELSE [rc |-> 0,
          fs |-> (temp :> DirEntry("repo")) @@ (Append(temp, <<".git">>) :> DirEntry("repo"))
                 @@ WithParents(f, temp, "repo")]

\* git -C <temp_dir> sparse-checkout set skills/<skill_name>; outcome "ok":
\* the repository holds that directory, "missing": it does not, "fail": the
\* command exits non-zero
SparseCheckout(f, temp, name, outcome) ==
    LET src == JoinPath(JoinPath(temp, <<"skills">>), name) IN
    IF outcome = "ok"
    THEN [rc |-> 0, fs |-> (src :> DirEntry("repo")) @@ WithParents(f, src, "repo")]
    ELSE [rc |-> IF outcome = "fail" THEN 1 ELSE 0, fs |-> f]

\* lines 22-29: the repository and the skill name a reference stands for
InstallRef(ref) ==
    IF StartsWithHttp(ref)
    THEN [ok |-> TRUE, repo |-> ref, name |-> LastOf(SplitSlash(RStripSlash(ref)))]
    ELSE IF HasSlash(ref)
    THEN [ok |-> TRUE,
          repo |-> <<"https:", "/", "/", "github.com", "/">>
                   \o SubSeq(ref, 1, FirstSlash(ref) - 1) \o <<"/", "skills">>,
          name |-> SubSeq(ref, FirstSlash(ref) + 1, Len(ref))]
    ELSE [ok |-> FALSE]

\* line 71: the skill name remove_skill takes from a reference
RemoveName(ref) == IF HasSlash(ref) THEN LastOf(SplitSlash(ref)) ELSE ref

\* target_dir = skills_dir / skill_name
TargetDir(name) == JoinPath(SkillsDir, name)

\* temp_dir = skills_dir / f".tmp_{skill_name}"
TempDir(name) == JoinPath(SkillsDir, <<".tmp_">> \o name)

\* a check that takes only a directory for an installed skill
AlreadyInstalledIsDir(f, target) ==
    LET w == Walk(f, <<>>, target) IN w.ok /\ IsDir(f, w.at)

\* line 33: target_dir.exists()
AlreadyInstalled(f, target) == PathExists(f, target)

Ret(k) == [k |-> k, stderr |-> FALSE]
RetWithStderr(k) == [k |-> k, stderr |-> TRUE]
Out(f, r, log) == [fs |-> f, ret |-> r, procs |-> log]
Ran(cmd, rc) == [cmd |-> cmd, rc |-> rc]

\* what the world outside the program decides during one call: what the
\* repository holds, and the one step (if any) that the operating system or
\* the network makes fail
Envs ==
    [sparse : {"ok", "missing", "fail"},
     fault : {"none", "mkdir", "clone", "nogit", "move", "rmtree"}]

\* install_skill(skill_ref, skills_dir): the tree it leaves, what it returns
\* ("raised": an exception reaches the caller) and the subprocesses it ran
Install(f, ref, env) ==
    LET mk == Mkdir(f, SkillsDir, env.fault # "mkdir") IN
    IF mk.raised THEN Out(mk.fs, Ret("raised"), <<>>)
    ELSE LET r == InstallRef(ref) IN
    IF ~r.ok THEN Out(mk.fs, Ret("invalid_ref"), <<>>)
    ELSE IF AlreadyInstalled(mk.fs, TargetDir(r.name))
    THEN Out(mk.fs, Ret("already"), <<>>)
    ELSE IF env.fault = "nogit" THEN Out(mk.fs, Ret("exception"), <<>>)
    ELSE LET temp == TempDir(r.name)
             cl == GitClone(mk.fs, temp, env.fault # "clone") IN
    IF cl.rc # 0
    THEN Out(cl.fs, RetWithStderr("clone_error"), <<Ran("clone", cl.rc)>>)
    ELSE LET sp == SparseCheckout(cl.fs, temp, r.name, env.sparse)
             log == <<Ran("clone", cl.rc), Ran("sparse-checkout", sp.rc)>>
             source == JoinPath(JoinPath(temp, <<"skills">>), r.name) IN
    IF PathExists(sp.fs, source)
    THEN LET mv == Move(sp.fs, source, TargetDir(r.name), env.fault # "move") IN
         IF mv.raised THEN Out(mv.fs, Ret("exception"), log)
         ELSE LET rm == RmTree(mv.fs, temp, env.fault # "rmtree") IN
              IF rm.raised THEN Out(rm.fs, Ret("exception"), log)
              ELSE Out(rm.fs, Ret("success"), log)
    ELSE LET rm == RmTree(sp.fs, temp, env.fault # "rmtree") IN
         IF rm.raised THEN Out(rm.fs, Ret("exception"), log)
         ELSE Out(rm.fs, Ret("not_found"), log)

\* remove_skill(skill_ref, skills_dir); works: rmtree meets no I/O error
Remove(f, ref, works) ==
    LET target == TargetDir(RemoveName(ref)) IN
    IF ~PathExists(f, target) THEN Out(f, Ret("not_installed"), <<>>)
    ELSE LET rm == RmTree(f, target, works) IN
         IF rm.raised THEN Out(rm.fs, Ret("exception"), <<>>)
         ELSE Out(rm.fs, Ret("success"), <<>>)

\* the references tried: owner/name, a URL, a URL with a trailing slash, a
\* shorthand with two slashes, a bare name, the empty string, "." and "..",
\* and a shorthand with nothing after the slash
Refs ==
    { <<"owner", "/", "foo">>,
      <<"https:", "/", "/", "host", "/", "foo">>,
      <<"https:", "/", "/", "host", "/", "foo", "/">>,
      <<"owner", "/", "a", "/", "foo">>,
      <<"foo">>,
      <<>>,
      <<".">>,
      <<"..">>,
      <<"owner", "/">> }

Shift(op, ref) ==
    /\ call' = [op |-> op, ref |-> ref]
    /\ prev' = IF call.op = "install" /\ ret.k = "success"
               THEN [op |-> call.op, ref |-> call.ref]
               ELSE NoCall

install_skill(ref, env) ==
    LET o == Install(fs, ref, env) IN
    /\ fs' = o.fs
    /\ ret' = o.ret
    /\ procs' = o.procs
    /\ Shift("install", ref)
    /\ UNCHANGED <<storeVars, parseVars>>

remove_skill(ref, works) ==
    LET o == Remove(fs, ref, works) IN
    /\ fs' = o.fs
    /\ ret' = o.ret
    /\ procs' = o.procs
    /\ Shift("remove", ref)
    /\ UNCHANGED <<storeVars, parseVars>>

InstallSkill == \E ref \in Refs, env \in Envs : install_skill(ref, env)
RemoveSkill == \E ref \in Refs, works \in BOOLEAN : remove_skill(ref, works)

Foo == <<"foo">>
Other == <<"other">>

\* the trees a call may find: no skills directory, a file in its place, an
\* empty skills directory, one holding an installed skill foo, one holding
\* a plain file foo; each beside a directory that is not the program's
InitTrees ==
    { (<<Other>> :> DirEntry("local")),
      (<<SkillsName>> :> FileEntry) @@ (<<Other>> :> DirEntry("local")),
      (<<SkillsName>> :> DirEntry("local")) @@ (<<Other>> :> DirEntry("local")),
      (<<SkillsName>> :> DirEntry("local")) @@ (<<Other>> :> DirEntry("local"))
        @@ (<<SkillsName, Foo>> :> DirEntry("local"))
        @@ (<<SkillsName, Foo, <<"SKILL.md">>>> :> FileEntry),
      (<<SkillsName>> :> DirEntry("local")) @@ (<<Other>> :> DirEntry("local"))
        @@ (<<SkillsName, Foo>> :> FileEntry) }

StoreIdle ==
    /\ stateFile = Absent
    /\ lastSet = None
    /\ got = None
    /\ lastOp = "init"
    /\ wpc = <<>>
    /\ wargs = <<>>
    /\ finished = <<>>

InitMarket ==
    /\ fs \in InitTrees
    /\ ret = [k |-> "none"]
    /\ procs = <<>>
    /\ call = NoCall
    /\ prev = NoCall
    /\ StoreIdle
    /\ ParseIdle

NextMarket ==
    \/ InstallSkill
    \/ RemoveSkill

SpecMarket == InitMarket /\ [][NextMarket]_vars

\* the reference of the last call resolves to a skill name for install_skill
CallNamesSkill == call.op = "install" /\ InstallRef(call.ref).ok

\* p names something that exists below skills_dir (not skills_dir itself,
\* nor anything outside it)
EntryUnderSkillsDir(f, p) ==
    /\ PathExists(f, p)
    /\ Len(Walk(f, <<>>, p).at) > Len(SkillsDir)
    /\ IsPrefix(SkillsDir, Walk(f, <<>>, p).at)

\* C2: install_skill with a reference whose target already exists under
\* skills_dir returns the "already installed" message, starts no subprocess
\* and leaves the whole tree (temporary directories included) as it was.
Thm_C2 ==
    [][(/\ call'.op = "install"
        /\ InstallRef(call'.ref).ok
        /\ EntryUnderSkillsDir(fs, TargetDir(InstallRef(call'.ref).name)))
       => (fs' = fs /\ ret'.k = "already" /\ procs' = <<>>)]_vars

\* a second install of a reference right after its install succeeded, refused
Wit_C2 ==
    /\ call.op = "install"
    /\ prev.op = "install"
    /\ prev.ref = call.ref
    /\ ret.k = "already"
    /\ procs = <<>>
    /\ EntryUnderSkillsDir(fs, TargetDir(InstallRef(call.ref).name))

\* C6: install_skill never lets an exception reach its caller, and the
\* message for a clone or checkout that failed carries the process's stderr.
Cex_C6 ==
    call.op = "install" =>
        /\ ret.k # "raised"
        /\ (\E i \in 1..Len(procs) : procs[i].rc # 0) => ret.stderr

\* C7: remove_skill resolves the skill name as install_skill does, so that
\* after a successful install(ref), remove(ref) targets the directory the
\* install created and (unless rmtree meets an I/O error) leaves no directory
\* for that skill.
Cex_C7 ==
    (/\ call.op = "remove"
     /\ prev.op = "install"
     /\ prev.ref = call.ref
     /\ ret.k # "exception") =>
        /\ RemoveName(call.ref) = InstallRef(call.ref).name
        /\ ~PathExists(fs, TargetDir(InstallRef(call.ref).name))

\* C9: when install_skill returns, no temporary clone directory
\* .tmp_<skill_name> remains under skills_dir, whatever the outcome.
Cex_C9 ==
    CallNamesSkill => ~PathExists(fs, TempDir(InstallRef(call.ref).name))

\* C10: remove_skill deletes at most one immediate child of skills_dir with
\* what is below it, changes nothing else, and deletes nothing when the
\* resolved directory is absent.
Cex_C10 ==
    [][call'.op = "remove" =>
        LET gone == DOMAIN fs \ DOMAIN fs' IN
        /\ DOMAIN fs' \subseteq DOMAIN fs
        /\ \A q \in DOMAIN fs' : fs'[q] = fs[q]
        /\ \A q \in gone : Len(q) >= 2 /\ q[1] = SkillsName
        /\ \A q1, q2 \in gone : q1[2] = q2[2]
        /\ ~PathExists(fs, TargetDir(RemoveName(call'.ref))) => gone = {}]_vars

----------------------------------------------------------------------------
(* lib/parser.py.  A SKILL.md is a sequence of lines; nl tells whether the  *)
(* last line ends in a newline.  A line is one of                           *)
(*   delim    "---" and optional trailing blanks                            *)
(*   blank    nothing but white space                                       *)
(*   kv       "key: value", with the value as YAML loads it                 *)
(*   item     "- value"                                                     *)
(*   text     words that hold no YAML indicator                             *)
(*   bad      text no YAML document may hold, such as "a: [b"               *)

MAX_NAME == 64
MAX_DESCRIPTION == 1024

PyInt(n) == [t |-> "int", n |-> n]
List(n) == [t |-> "list", len |-> n]
Raised(e) == [t |-> "raised", e |-> e]
YamlError == [t |-> "yamlerror"]

Delim == [t |-> "delim"]
Blank == [t |-> "blank"]
KV(k, v) == [t |-> "kv", k |-> k, v |-> v]
Item == [t |-> "item"]
Text == [t |-> "text"]
Bad == [t |-> "bad"]

Content(lines, nl) == [exists |-> TRUE, lines |-> lines, nl |-> nl]

\* line i ends in "\n"
Terminated(c, i) == i < Len(c.lines) \/ c.nl

\* re.match(r'^---\s*\n(.*?)\n---\s*\n', content, re.DOTALL): the lines of
\* group(1) and the index of the closing delimiter.  The greedy \s* first
\* takes every blank line after the opening one, so the group starts at the
\* first line that is not blank and runs to the first delimiter after it;
\* only when there is none does \s* give lines back, and the one match left
\* is an empty group before a delimiter that follows a blank line.
FrontmatterMatch(c) ==
    LET L == c.lines
        n == Len(L)
        IsClose(j) == L[j] = Delim /\ Terminated(c, j)
        nonblank == {i \in 2..n : L[i] # Blank} IN
    IF n = 0 \/ L[1] # Delim \/ nonblank = {} THEN [ok |-> FALSE]
    ELSE LET f == CHOOSE i \in nonblank : \A j \in nonblank : i <= j
             closers == {j \in (f + 1)..n : IsClose(j)} IN
    IF closers # {}
    THEN LET j == CHOOSE j \in closers : \A k \in closers : j <= k IN
         [ok |-> TRUE, group |-> SubSeq(L, f, j - 1), close |-> j]
    ELSE IF f >= 3 /\ IsClose(f)
    THEN [ok |-> TRUE, group |-> <<Blank>>, close |-> f]
    ELSE [ok |-> FALSE]

\* a later "key: value" line replaces an earlier one with the same key
RECURSIVE YamlMapping(_)
YamlMapping(kvs) ==
    IF kvs = <<>> THEN <<>>
    ELSE (LastOf(kvs).k :> LastOf(kvs).v) @@ YamlMapping(SubSeq(kvs, 1, Len(kvs) - 1))

\* yaml.safe_load(group): a leading "---" opens the document; no content
\* loads None, "key: value" lines a dict, "- value" lines a list, words a
\* string; anything else is a yaml.YAMLError
SafeLoad(group) ==
    LET g0 == SelectSeq(group, LAMBDA l : l # Blank)
        g == IF g0 # <<>> /\ g0[1] = Delim THEN Tail(g0) ELSE g0
        All(t) == \A i \in 1..Len(g) : g[i].t = t IN
    IF g = <<>> THEN None
    ELSE IF All("kv") THEN Dict(YamlMapping(g))
    ELSE IF All("item") THEN List(Len(g))
    ELSE IF All("text") THEN Str(<<"w">>)
    ELSE YamlError

\* dict.get(key): the value, or None
DictGet(d, key) == IF key \in DOMAIN d.d THEN d.d[key] ELSE None

\* Python's truth value
Truthy(v) ==
    CASE v.t = "none" -> FALSE
      [] v.t = "str" -> v.s # <<>>
      [] v.t = "int" -> v.n # 0
      [] v.t = "list" -> v.len # 0
      [] OTHER -> TRUE

Lower == {"a", "b", "c", "d", "e", "f", "g", "h", "i", "j", "k", "l", "m",
          "n", "o", "p", "q", "r", "s", "t", "u", "v", "w", "x", "y", "z"}
Digits == {"0", "1", "2", "3", "4", "5", "6", "7", "8", "9"}

\* the whole of s is [a-z0-9]+(-[a-z0-9]+)*
FullNameMatch(s) ==
    /\ s # <<>>
    /\ \A i \in 1..Len(s) : s[i] \in Lower \cup Digits \cup {"-"}
    /\ s[1] # "-"
    /\ s[Len(s)] # "-"
    /\ \A i \in 1..(Len(s) - 1) : ~(s[i] = "-" /\ s[i + 1] = "-")

\* re.match(r'^[a-z0-9]+(-[a-z0-9]+)*$', s): without re.MULTILINE, "$"
\* matches at the end of s and also just before a newline that ends s
NameReMatch(s) ==
    \/ FullNameMatch(s)
    \/ (s # <<>> /\ s[Len(s)] = "\n" /\ FullNameMatch(SubSeq(s, 1, Len(s) - 1)))

\* str.strip() of the text after the match: blank lines at both ends go
RECURSIVE StripLines(_)
StripLines(ls) ==
    IF ls # <<>> /\ ls[1] = Blank THEN StripLines(Tail(ls))
    ELSE IF ls # <<>> /\ LastOf(ls) = Blank THEN StripLines(SubSeq(ls, 1, Len(ls) - 1))
    ELSE ls

Skill(name, description, body, fm) ==
    [t |-> "skill", name |-> name, description |-> description, body |-> body,
     allowed_tools |-> DictGet(fm, "allowed-tools"),
     license |-> DictGet(fm, "license"),
     compatibility |-> DictGet(fm, "compatibility"),
     metadata |-> DictGet(fm, "metadata")]

\* parse_skill(skill_path) for the file at skill_path
parse_skill(file) ==
    IF ~file.exists THEN None
    ELSE LET m == FrontmatterMatch(file) IN
    IF ~m.ok THEN None
    ELSE LET fm == SafeLoad(m.group) IN
    IF fm = YamlError THEN None
    ELSE IF fm.t # "dict" THEN Raised("AttributeError")
    ELSE LET name == DictGet(fm, "name")
             description == DictGet(fm, "description") IN
    IF ~Truthy(name) \/ ~Truthy(description) THEN None
    ELSE IF name.t # "str" THEN Raised("TypeError")
    ELSE IF ~NameReMatch(name.s) THEN None
    ELSE IF Len(name.s) > MAX_NAME THEN None
    ELSE IF description.t = "int" THEN Raised("TypeError")
    ELSE IF (IF description.t = "str" THEN Len(description.s) ELSE description.len)
            > MAX_DESCRIPTION
    THEN None
    ELSE Skill(name, description,
               StripLines(SubSeq(file.lines, m.close + 1, Len(file.lines))), fm)

\* the characters a parsed name may hold, in code point order
CodeOrder ==
    <<"\n", "-", "0", "1", "2", "3", "4", "5", "6", "7", "8", "9",
      "a", "b", "c", "d", "e", "f", "g", "h", "i", "j", "k", "l", "m",
      "n", "o", "p", "q", "r", "s", "t", "u", "v", "w", "x", "y", "z">>

Code(c) == CHOOSE i \in 1..Len(CodeOrder) : CodeOrder[i] = c

\* a < b for Python strings
StrLess(a, b) ==
    \E k \in 1..(Len(b)) :
        /\ \A i \in 1..(k - 1) : i <= Len(a) /\ a[i] = b[i]
        /\ (k > Len(a) \/ Code(a[k]) < Code(b[k]))

\* x put behind the last element that is not greater than it
InsertByName(sorted, x) ==
    LET keep == {i \in 0..Len(sorted) :
                    \A j \in 1..i : ~StrLess(x.name.s, sorted[j].name.s)}
        at == CHOOSE i \in keep : \A j \in keep : j <= i IN
    SubSeq(sorted, 1, at) \o <<x>> \o SubSeq(sorted, at + 1, Len(sorted))

\* sorted(skills, key=lambda s: s.name): a stable sort
RECURSIVE SortedByName(_)
SortedByName(skills) ==
    IF skills = <<>> THEN <<>>
    ELSE InsertByName(SortedByName(SubSeq(skills, 1, Len(skills) - 1)), LastOf(skills))

PyList(v) == [t |-> "list", v |-> v]

Entry(name, kind, skillmd) == [name |-> name, kind |-> kind, skillmd |-> skillmd]

\* entry.is_dir() and not entry.name.startswith(".")
Visited(e) == e.kind = "dir" /\ ~(e.name # <<>> /\ e.name[1] = ".")

\* the loop of list_skills over the entries in iterdir() order: the skills
\* appended, or the exception parse_skill raised
RECURSIVE Collect(_)
Collect(entries) ==
    IF entries = <<>> THEN PyList(<<>>)
    ELSE LET before == Collect(SubSeq(entries, 1, Len(entries) - 1))
             e == LastOf(entries) IN
         IF before.t = "raised" \/ ~Visited(e) THEN before
         ELSE LET skill == parse_skill(e.skillmd) IN
              IF skill.t = "raised" THEN skill
              ELSE IF skill.t = "skill" THEN PyList(Append(before.v, skill))
              ELSE before

\* list_skills(skills_dir)
list_skills(dir) ==
    IF ~dir.exists THEN PyList(<<>>)
    ELSE IF dir.kind # "dir" THEN Raised("NotADirectoryError")
    ELSE LET c == Collect(dir.entries) IN
         IF c.t = "raised" THEN c ELSE PyList(SortedByName(c.v))

----------------------------------------------------------------------------
(* The descriptors and directories the parser is run on *)

\* most entries of a skills directory
MaxEntries == 3

Repeat(c, n) == [i \in 1..n |-> c]

NameStrings ==
    { <<>>, <<"a">>, <<"m", "y", "-", "s", "k", "i", "l", "l">>,
      <<"A">>, <<"a", "_", "b">>, <<"-", "a">>, <<"a", "-">>,
      <<"a", "-", "-", "b">>, <<"a", " ">>, <<"a", "\n">>, <<"\n">>,
      Repeat("a", MAX_NAME), Repeat("a", MAX_NAME + 1),
      Repeat("a", MAX_NAME - 1) \o <<"\n">>, Repeat("a", MAX_NAME) \o <<"\n">> }

NameValues ==
    {Str(s) : s \in NameStrings} \cup {None, PyInt(0), PyInt(5), List(0), List(2)}

DescriptionValues ==
    { Str(<<>>), Str(<<"x">>), Str(Repeat("x", MAX_DESCRIPTION)),
      Str(Repeat("x", MAX_DESCRIPTION + 1)), PyInt(7), List(2) }

\* the frontmatter lines for a name and a description, either left out
\* when it is NoInput
FieldLines(nv, dv) ==
    (IF nv = NoInput THEN <<>> ELSE <<KV("name", nv)>>)
    \o (IF dv = NoInput THEN <<>> ELSE <<KV("description", dv)>>)

GoodFields == FieldLines(Str(<<"a">>), Str(<<"x">>))

Descriptors ==
    {Absent}
    \cup {Content(<<Delim>> \o FieldLines(nv, dv) \o <<Delim>>, TRUE) :
            nv \in NameValues \cup {NoInput},
            dv \in DescriptionValues \cup {NoInput}}
    \cup {Content(ls, TRUE) : ls \in
            { <<>>, <<Text>>, <<Delim, Delim>>, <<Delim, Blank, Delim>>,
              <<Delim, Blank, Blank, Delim>>, <<Delim, Item, Delim>>,
              <<Delim, Text, Delim>>, <<Delim, Bad, Delim>>,
              <<Delim, Blank, Delim, Text, Delim>>,
              <<Delim>> \o GoodFields \o <<Text, Delim>>,
              <<Delim>> \o GoodFields \o <<Item, Delim>>,
              <<Delim>> \o GoodFields \o <<KV("name", Str(<<"b">>)), Delim>>,
              <<Delim>> \o GoodFields
                \o <<KV("allowed-tools", Str(<<"R">>)), Delim, Blank, Text, Blank>>,
              <<Delim, Blank>> \o GoodFields \o <<Delim, Text, Delim, Text>>,
              <<Blank, Delim>> \o GoodFields \o <<Delim>> }}
    \cup {Content(<<Delim>> \o GoodFields \o <<Delim>>, FALSE),
          Content(<<Delim>> \o GoodFields \o <<Delim, Text>>, FALSE)}

SkillMd(name, description) ==
    Content(<<Delim>> \o FieldLines(Str(name), Str(description)) \o <<Delim>>, TRUE)

\* what a skills directory may hold: valid skills (two of them sharing a
\* name), a descriptor without a name, a hidden directory, a plain file, a
\* directory without SKILL.md, and a descriptor with empty frontmatter
EntryChoices ==
    { Entry(<<"p">>, "dir", SkillMd(<<"b">>, <<"x">>)),
      Entry(<<"q">>, "dir", SkillMd(<<"a">>, <<"x">>)),
      Entry(<<"r">>, "dir", SkillMd(<<"a">>, <<"y">>)),
      Entry(<<"s">>, "dir", Content(<<Delim, KV("description", Str(<<"x">>)), Delim>>, TRUE)),
      Entry(<<".", "h">>, "dir", SkillMd(<<"c">>, <<"x">>)),
      Entry(<<"f">>, "file", Absent),
      Entry(<<"e">>, "dir", Absent),
      Entry(<<"n">>, "dir", Content(<<Delim, Blank, Delim>>, TRUE)) }

Distinct(es) == \A i, j \in 1..Len(es) : i # j => es[i].name # es[j].name

Listings ==
    {Absent, [exists |-> TRUE, kind |-> "file"]}
    \cup {[exists |-> TRUE, kind |-> "dir", entries |-> es] :
            es \in {x \in SeqsUpTo(EntryChoices, MaxEntries) : Distinct(x)}}

ParseSkill ==
    /\ descriptor # NoInput
    /\ parsed' = parse_skill(descriptor)
    /\ UNCHANGED <<descriptor, listing, listed, storeVars, marketVars>>

ListSkills ==
    /\ listing # NoInput
    /\ listed' = list_skills(listing)
    /\ UNCHANGED <<descriptor, parsed, listing, storeVars, marketVars>>

InitParse ==
    /\ \/ descriptor \in Descriptors /\ listing = NoInput
       \/ descriptor = NoInput /\ listing \in Listings
    /\ parsed = Pending
    /\ listed = Pending
    /\ StoreIdle
    /\ MarketIdle

NextParse ==
    \/ ParseSkill
    \/ ListSkills

SpecParse == InitParse /\ [][NextParse]_vars

\* C3: parse_skill never raises; whatever the descriptor holds it returns a
\* Skill or None.
Cex_C3 ==
    parsed # Pending => parsed.t \in {"skill", "none"}

\* the frontmatter of the descriptor, when it loads as a mapping whose name
\* and description are strings
StringFields ==
    /\ descriptor # NoInput
    /\ descriptor.exists
    /\ FrontmatterMatch(descriptor).ok
    /\ SafeLoad(FrontmatterMatch(descriptor).group).t = "dict"
    /\ DictGet(SafeLoad(FrontmatterMatch(descriptor).group), "name").t = "str"
    /\ DictGet(SafeLoad(FrontmatterMatch(descriptor).group), "description").t = "str"

FieldOf(key) == DictGet(SafeLoad(FrontmatterMatch(descriptor).group), key).s

\* C4: for a frontmatter mapping with string name and description,
\* parse_skill returns a record exactly when the name is not empty, the
\* whole of it matches [a-z0-9]+(-[a-z0-9]+)*, it has at most 64 characters,
\* and the description is not empty and has at most 1024 characters.
Cex_C4 ==
    (parsed # Pending /\ StringFields) =>
        (parsed.t = "skill" <=>
            /\ FieldOf("name") # <<>>
            /\ FullNameMatch(FieldOf("name"))
            /\ Len(FieldOf("name")) <= MAX_NAME
            /\ FieldOf("description") # <<>>
            /\ Len(FieldOf("description")) <= MAX_DESCRIPTION)

Count(seq, x) == Cardinality({i \in 1..Len(seq) : seq[i] = x})

\* the entries list_skills is to report: immediate subdirectories that are
\* not hidden and whose SKILL.md parses to a record
Reported ==
    SelectSeq(listing.entries,
              LAMBDA e : Visited(e) /\ parse_skill(e.skillmd).t = "skill")

\* C5: list_skills returns the empty list for a directory that does not
\* exist, and for one that does exactly one record per immediate, not hidden
\* subdirectory whose SKILL.md parses to a record, in non-decreasing order of
\* name.
Cex_C5 ==
    (listed # Pending /\ (listing.exists => listing.kind = "dir")) =>
        /\ listed.t = "list"
        /\ ~listing.exists => listed.v = <<>>
        /\ listing.exists =>
            /\ Len(listed.v) = Len(Reported)
            /\ \A i \in 1..Len(Reported) :
                  Count(listed.v, parse_skill(Reported[i].skillmd))
                  = Count([j \in 1..Len(Reported) |-> parse_skill(Reported[j].skillmd)],
                          parse_skill(Reported[i].skillmd))
            /\ \A i \in 1..(Len(listed.v) - 1) :
                  ~StrLess(listed.v[i + 1].name.s, listed.v[i].name.s)

====
